---- MODULE Spec2Model ----
(***************************************************************************)
(* Model of the GetObject handler of the S3 Object Lambda default          *)
(* configuration (python_3_9): request/utils.py and                        *)
(* handler/get_object_handler.py.                                          *)
(*                                                                         *)
(* Python strings are sequences of one-character strings, so that          *)
(* str.lower(), str.split() and the query parsing are computed and not     *)
(* assumed.  An optional value (None or a value) is <<>> or <<value>>.     *)
(* A dict is the sequence of its <<key, value>> items in insertion order,  *)
(* with pairwise distinct keys.                                            *)
(***************************************************************************)
EXTENDS Integers, Sequences, FiniteSets, TLC

(* ------------------------------ strings ------------------------------ *)

None == <<>>
Some(v) == <<v>>

UpperLetters ==
  <<"A","B","C","D","E","F","G","H","I","J","K","L","M",
    "N","O","P","Q","R","S","T","U","V","W","X","Y","Z">>
LowerLetters ==
  <<"a","b","c","d","e","f","g","h","i","j","k","l","m",
    "n","o","p","q","r","s","t","u","v","w","x","y","z">>

LowerChar(c) ==
  IF \E i \in DOMAIN UpperLetters : UpperLetters[i] = c
  THEN LowerLetters[CHOOSE i \in DOMAIN UpperLetters : UpperLetters[i] = c]
  ELSE c

\* str.lower()
Lower(s) == [i \in DOMAIN s |-> LowerChar(s[i])]

\* index of the first occurrence of character c in s, 0 when there is none
IndexOf(s, c) ==
  IF \E i \in DOMAIN s : s[i] = c
  THEN CHOOSE i \in DOMAIN s : s[i] = c /\ \A j \in 1..(i - 1) : s[j] # c
  ELSE 0

RECURSIVE Split(_, _)
\* str.split(c): the pieces of s between the occurrences of c
Split(s, c) ==
  LET i == IndexOf(s, c) IN
  IF i = 0 THEN <<s>>
  ELSE <<SubSeq(s, 1, i - 1)>> \o Split(SubSeq(s, i + 1, Len(s)), c)

RECURSIVE Join(_, _)
Join(parts, sep) ==
  IF parts = <<>> THEN <<>>
  ELSE IF Len(parts) = 1 THEN parts[1]
  ELSE parts[1] \o sep \o Join(Tail(parts), sep)

\* the %XX escapes of the characters the requests of the model escape
\* (lower-case hex: get_query_param lower-cases the URL before parsing it)
Escapes == << <<"3","b",";">>, <<"3","B",";">>, <<"3","d","=">>, <<"3","D","=">>,
              <<"2","0"," ">> >>

RECURSIVE unquote(_)
\* urllib.parse.unquote after '+' -> ' ', as parse_qsl applies it to names and values
unquote(s) ==
  IF s = <<>> THEN <<>>
  ELSE IF s[1] = "+" THEN <<" ">> \o unquote(Tail(s))
  ELSE IF s[1] = "%" /\ Len(s) >= 3
          /\ \E e \in DOMAIN Escapes : Escapes[e][1] = s[2] /\ Escapes[e][2] = s[3]
       THEN LET e == CHOOSE e \in DOMAIN Escapes :
                        Escapes[e][1] = s[2] /\ Escapes[e][2] = s[3]
            IN <<Escapes[e][3]>> \o unquote(SubSeq(s, 4, Len(s)))
  ELSE <<s[1]>> \o unquote(Tail(s))

\* urlparse(url).query: what follows the first '?' of the part before the first '#'
urlparse_query(url) ==
  LET h == IndexOf(url, "#")
      u == IF h = 0 THEN url ELSE SubSeq(url, 1, h - 1)
      q == IndexOf(u, "?")
  IN IF q = 0 THEN <<>> ELSE SubSeq(u, q + 1, Len(u))

RECURSIVE parse_pairs(_)
parse_pairs(fields) ==
  IF fields = <<>> THEN <<>>
  ELSE LET f  == fields[1]
           i  == IndexOf(f, "=")
           nm == IF i = 0 THEN f ELSE SubSeq(f, 1, i - 1)
           vl == IF i = 0 THEN <<>> ELSE SubSeq(f, i + 1, Len(f))
       IN (IF vl = <<>> THEN <<>> ELSE << <<unquote(nm), unquote(vl)>> >>)
          \o parse_pairs(Tail(fields))

\* urllib.parse.parse_qsl(qs): the <<name, value>> pairs of the fields separated
\* by '&'; a field with a blank value or without '=' is dropped
parse_qsl(qs) == parse_pairs(Split(qs, "&"))

(* --------------------------- request/utils.py ------------------------- *)

PART_NUMBER == <<"p","a","r","t","N","u","m","b","e","r">>
RANGE == <<"R","a","n","g","e">>
SIGNED_HEADERS ==
  <<"X","-","A","m","z","-","S","i","g","n","e","d","H","e","a","d","e","r","s">>

\* dict(pairs)[name] when name is a key (the last pair of that name wins), else None
dict_get(pairs, name) ==
  LET hits == SelectSeq(pairs, LAMBDA p : p[1] = name)
  IN IF hits = <<>> THEN None ELSE Some(hits[Len(hits)][2])

get_query_param(url, name) ==
  LET lurl  == Lower(url)
      lname == Lower(name)
      parse_query == parse_qsl(urlparse_query(lurl))
  IN dict_get(parse_query, lname)

get_signed_headers_from_url(url) ==
  LET signed_headers_as_str == get_query_param(url, SIGNED_HEADERS)
      signed_headers == IF signed_headers_as_str # None
                        THEN Split(signed_headers_as_str[1], ";")
                        ELSE <<>>
  IN [i \in DOMAIN signed_headers |-> Lower(signed_headers[i])]

get_part_number(user_request) == get_query_param(user_request.url, PART_NUMBER)

\* get_range looking the header up under its exact name
get_range_exact_name(user_request) ==
  LET hit == dict_get(user_request.headers, RANGE)
  IN IF hit # None THEN hit
     ELSE get_query_param(user_request.url, RANGE)

\* {k.lower(): v for k, v in headers.items()}: a later item replaces the value
\* of an earlier one whose lower-cased key is the same
get_range(user_request) ==
  LET hs == user_request.headers
      request_header == [i \in DOMAIN hs |-> <<Lower(hs[i][1]), hs[i][2]>>]
      hit == dict_get(request_header, Lower(RANGE))
  IN IF hit # None THEN hit
     ELSE get_query_param(user_request.url, RANGE)

(* ------------- collaborators outside handler/ and request/utils ------- *)

Digits == <<"0","1","2","3","4","5","6","7","8","9">>
IsDigit(c) == \E i \in DOMAIN Digits : Digits[i] = c
DigitVal(c) == (CHOOSE i \in DOMAIN Digits : Digits[i] = c) - 1
IsNumber(s) == s # <<>> /\ \A i \in DOMAIN s : IsDigit(s[i])

RECURSIVE ToNat(_)
ToNat(s) == IF s = <<>> THEN 0
            ELSE ToNat(SubSeq(s, 1, Len(s) - 1)) * 10 + DigitVal(s[Len(s)])

\* response.MapperResponse
MapperResponse(hasError, object, error_msg) ==
  [hasError |-> hasError, object |-> object, error_msg |-> error_msg]

Min(a, b) == IF a < b THEN a ELSE b
Max(a, b) == IF a > b THEN a ELSE b

\* the bytes [start, end) of obj, offsets counted from 0
Slice(obj, start, end) == SubSeq(obj, start + 1, end)

BYTES_UNIT == <<"b","y","t","e","s","=">>
RangeError == MapperResponse(TRUE, None, Some("Cannot process specified range"))
PartError == MapperResponse(TRUE, None, Some("Cannot specify part number"))

\* response.range_mapper.map_range: bytes=start-end, bytes=start-, bytes=-suffix
map_range(transformed_object, range_spec) ==
  LET length == Len(transformed_object)
      unit   == Len(BYTES_UNIT)
      rest   == SubSeq(range_spec, unit + 1, Len(range_spec))
      parts  == Split(rest, "-")
  IN IF Len(range_spec) < unit \/ SubSeq(range_spec, 1, unit) # BYTES_UNIT
        \/ Len(parts) # 2
     THEN RangeError
     ELSE LET a == parts[1]
              b == parts[2]
          IN IF a = <<>> /\ IsNumber(b)
             THEN IF length = 0 \/ ToNat(b) = 0 THEN RangeError
                  ELSE MapperResponse(FALSE,
                         Some(Slice(transformed_object,
                                    Max(0, length - ToNat(b)), length)), None)
             ELSE IF IsNumber(a) /\ b = <<>>
             THEN IF ToNat(a) >= length THEN RangeError
                  ELSE MapperResponse(FALSE,
                         Some(Slice(transformed_object, ToNat(a), length)), None)
             ELSE IF IsNumber(a) /\ IsNumber(b)
             THEN IF ToNat(a) >= length \/ ToNat(a) > ToNat(b) THEN RangeError
                  ELSE MapperResponse(FALSE,
                         Some(Slice(transformed_object, ToNat(a),
                                    Min(ToNat(b), length - 1) + 1)), None)
             ELSE RangeError

\* the fixed size of a part
PartSize == 2

\* response.part_number_mapper.map_part_number
map_part_number(transformed_object, part_number) ==
  IF ~IsNumber(part_number) \/ ToNat(part_number) < 1 THEN PartError
  ELSE LET start == (ToNat(part_number) - 1) * PartSize
       IN IF start >= Len(transformed_object) THEN PartError
          ELSE MapperResponse(FALSE,
                 Some(Slice(transformed_object, start,
                            Min(start + PartSize, Len(transformed_object)))), None)

RECURSIVE Sum(_)
Sum(b) == IF b = <<>> THEN 0 ELSE b[1] + Sum(Tail(b))

RECURSIVE Weighted(_)
Weighted(b) == IF b = <<>> THEN 0 ELSE Len(b) * b[1] + Weighted(Tail(b))

\* checksum.get_checksum: an (algorithm, digest) pair computed from the bytes
get_checksum(object) ==
  [algorithm |-> "Adler", digest |-> <<(1 + Sum(object)) % 251,
                                      (Len(object) + Weighted(object)) % 251>>]

RECURSIVE Reverse(_)
Reverse(b) == IF b = <<>> THEN <<>> ELSE Reverse(Tail(b)) \o <<b[1]>>

\* transform.transform_object is a pure, total function on bytes; these are the
\* ones a run may be configured with
Transforms == {"identity", "reverse"}
transform_object(t, original_object) ==
  IF t = "identity" THEN original_object ELSE Reverse(original_object)

\* requests.codes
codes_ok == 200
codes_not_modified == 304
codes_bad_request == 400

\* what s3_client.write_get_object_response receives
Response(call, StatusCode, ErrorCode, ErrorMessage, Body, Metadata) ==
  [call |-> call, StatusCode |-> StatusCode, ErrorCode |-> ErrorCode,
   ErrorMessage |-> ErrorMessage, Body |-> Body, Metadata |-> Metadata]

\* error.write_error_response(s3_client, request_context, status, code, message)
write_error_response(status_code, error_code, error_msg) ==
  Response("write_error_response", Some(status_code), Some(error_code),
           error_msg, None, None)

\* error.write_error_response_for_s3(s3_client, request_context, object_response)
write_error_response_for_s3(object_response) ==
  Response("write_error_response_for_s3", Some(object_response.status_code), None,
           Some(object_response.content), None, None)

(* ------------------- handler/get_object_handler.py -------------------- *)

OPTIONAL_HEADERS ==
  { <<"i","f","-","m","a","t","c","h">>,
    <<"i","f","-","m","o","d","i","f","i","e","d","-","s","i","n","c","e">>,
    <<"i","f","-","n","o","n","e","-","m","a","t","c","h">>,
    <<"i","f","-","u","n","m","o","d","i","f","i","e","d","-","s","i","n","c","e">> }

HOST == <<"h","o","s","t">>

InSeq(x, sq) == \E i \in DOMAIN sq : sq[i] = x

RECURSIVE dict_update(_, _)
\* headers[key] = value for every item of items, in order: a new key is appended,
\* the value of a key already there is replaced in place
dict_update(headers, items) ==
  IF items = <<>> THEN headers
  ELSE LET k == items[1][1]
           v == items[1][2]
           h == IF \E i \in DOMAIN headers : headers[i][1] = k
                THEN [i \in DOMAIN headers |->
                        IF headers[i][1] = k THEN <<k, v>> ELSE headers[i]]
                ELSE Append(headers, <<k, v>>)
       IN dict_update(h, Tail(items))

include_signed_headers(s3_presigned_url, user_headers, headers) ==
  LET signed_headers == get_signed_headers_from_url(s3_presigned_url)
  IN dict_update(headers,
       SelectSeq(user_headers, LAMBDA kv : InSeq(Lower(kv[1]), signed_headers)))

\* include_optional_headers comparing the key as the caller wrote it
include_optional_headers_exact_case(user_headers, headers) ==
  dict_update(headers,
    SelectSeq(user_headers, LAMBDA kv : kv[1] \in OPTIONAL_HEADERS))

include_optional_headers(user_headers, headers) ==
  dict_update(headers,
    SelectSeq(user_headers, LAMBDA kv : Lower(kv[1]) \in OPTIONAL_HEADERS))

\* get_request_header filtering the key "host" as the caller wrote it
get_request_header_exact_host(user_headers, s3_presigned_url) ==
  LET h1 == include_signed_headers(s3_presigned_url, user_headers, <<>>)
      h2 == include_optional_headers(user_headers, h1)
  IN SelectSeq(h2, LAMBDA kv : kv[1] # HOST)

get_request_header(user_headers, s3_presigned_url) ==
  LET h1 == include_signed_headers(s3_presigned_url, user_headers, <<>>)
      h2 == include_optional_headers(user_headers, h1)
  IN SelectSeq(h2, LAMBDA kv : Lower(kv[1]) # HOST)

Truthy(opt) == opt # None /\ opt[1] # <<>>

\* selected_mapper testing the range before the part number
selected_mapper_range_first(range_number, part_number) ==
  IF Truthy(range_number) THEN "range_mapper"
  ELSE IF Truthy(part_number) THEN "part_number_mapper"
  ELSE "none"

\* the mapper apply_range_or_part_number hands the object to, if any
selected_mapper(range_number, part_number) ==
  IF Truthy(part_number) THEN "part_number_mapper"
  ELSE IF Truthy(range_number) THEN "range_mapper"
  ELSE "none"

apply_range_or_part_number(transformed_object, user_request) ==
  LET range_number == get_range(user_request)
      part_number  == get_part_number(user_request)
      mapper       == selected_mapper(range_number, part_number)
  IN IF mapper = "part_number_mapper"
     THEN map_part_number(transformed_object, part_number[1])
     ELSE IF mapper = "range_mapper"
     THEN map_range(transformed_object, range_number[1])
     ELSE MapperResponse(FALSE, Some(transformed_object), None)

(* ------------------------------ requests ------------------------------ *)

\* the most header items plus query parameters a request carries
MaxFields == 2

HeaderItems ==
  { <<RANGE, <<"b","y","t","e","s","=","0","-","1">> >>,
    << <<"R","A","N","G","E">>, <<"b","y","t","e","s","=","7","-">> >>,
    << <<"r","a","n","g","e">>, <<>> >>,
    << <<"H","o","s","t">>, <<"h">> >>,
    << <<"H","O","S","T">>, <<"g">> >>,
    << <<"I","f","-","N","o","n","e","-","M","a","t","c","h">>, <<"e">> >>,
    << <<"x","-","a","m","z","-","d","a","t","e">>, <<"d">> >>,
    << <<"A","c","c","e","p","t">>, <<"a">> >> }

QueryItems ==
  { <<PART_NUMBER, <<"1">> >>,
    << <<"P","a","r","t","N","u","m","b","e","r">>, <<"9">> >>,
    <<PART_NUMBER, <<>> >>,
    << <<"r","a","n","g","e">>, <<"B","y","t","e","s","=","1","-","2">> >>,
    << <<"v","e","r","s","i","o","n","I","d">>, <<"v">> >> }

\* the header names a presigned URL may declare signed; None: no such parameter
SignedLists ==
  { None,
    Some(<<HOST>>),
    Some(<<HOST, <<"x","-","a","m","z","-","d","a","t","e">> >>),
    Some(<< <<"H","o","s","t">>, RANGE>>) }

SeqsUpTo(S, n) == UNION {[1..k -> S] : k \in 0..n}
DistinctKeys(items) ==
  \A i, j \in DOMAIN items : i # j => items[i][1] # items[j][1]

UserUrlBase == <<"h","t","t","p","s",":","/","/","a","p","/","k">>
S3UrlBase == <<"h","t","t","p","s",":","/","/","s","3","/","k">>

RenderItems(items) == Join([i \in DOMAIN items |-> items[i][1] \o <<"=">> \o items[i][2]], <<"&">>)

\* the caller's URL with the query parameters items
UserUrl(items) ==
  IF items = <<>> THEN UserUrlBase ELSE UserUrlBase \o <<"?">> \o RenderItems(items)

\* a presigned URL declaring the headers of the list signed, ';' written %3B
S3Url(signedList) ==
  S3UrlBase \o <<"?","X","-","A","m","z","-","D","a","t","e","=","2","0">>
  \o (IF signedList = None THEN <<>>
      ELSE <<"&">> \o SIGNED_HEADERS \o <<"=">> \o Join(signedList[1], <<"%","3","B">>))

ValidationOutcomes ==
  { [is_valid |-> TRUE, error_msg |-> None],
    [is_valid |-> FALSE, error_msg |-> Some("Request is malformed")],
    [is_valid |-> FALSE, error_msg |-> Some("Header is not supported")] }

\* what requests.get may return: the object, part of it, not modified, an error
OriginResponses ==
  { [status_code |-> codes_ok, content |-> <<>>],
    [status_code |-> codes_ok, content |-> <<1, 2, 3>>],
    [status_code |-> 206, content |-> <<1, 2>>],
    [status_code |-> codes_not_modified, content |-> <<>>],
    [status_code |-> 404, content |-> <<4, 0, 4>>] }

(* ------------------------------- state -------------------------------- *)

VARIABLES
  pc,                       \* where the handler is: the next step, "done", "raised"
  user_request,             \* [url, headers]
  request_context,          \* [inputS3Url]
  query,                    \* the query items user_request.url was written from
  signed,                   \* the signed list inputS3Url was written from
  transform,                \* the transform the function is deployed with
  requests_validation,      \* None before validation
  request_header,           \* None before the fetch
  object_response,          \* None before the fetch
  transformed_whole_object, \* None before the transform
  range_number, part_number,\* locals of apply_range_or_part_number
  partial_object_response,  \* None before the extraction
  calls,                    \* the collaborators called so far, in order
  responses                 \* what was written to the response sink, in order

vars == <<pc, user_request, request_context, query, signed, transform,
          requests_validation, request_header, object_response,
          transformed_whole_object, range_number, part_number,
          partial_object_response, calls, responses>>

inputs == <<user_request, request_context, query, signed, transform>>

Init ==
  /\ pc = "validate"
  /\ \E hs \in SeqsUpTo(HeaderItems, MaxFields) :
       /\ DistinctKeys(hs)
       /\ \E qs \in SeqsUpTo(QueryItems, MaxFields - Len(hs)) :
            /\ query = qs
            /\ user_request = [url |-> UserUrl(qs), headers |-> hs]
  /\ \E sl \in SignedLists :
       /\ signed = sl
       /\ request_context = [inputS3Url |-> S3Url(sl)]
  /\ transform \in Transforms
  /\ requests_validation = None
  /\ request_header = None
  /\ object_response = None
  /\ transformed_whole_object = None
  /\ range_number = None
  /\ part_number = None
  /\ partial_object_response = None
  /\ calls = <<>>
  /\ responses = <<>>

\* line 54 without its "not"
validation_failed_inverted(v) == v.is_valid

\* line 54: if not requests_validation.is_valid
validation_failed(v) == ~v.is_valid

\* lines 53-56: validate, and answer InvalidRequest when the request is invalid
Validate ==
  /\ pc = "validate"
  /\ \E v \in ValidationOutcomes :
       /\ requests_validation' = Some(v)
       /\ IF validation_failed(v)
          THEN /\ responses' = Append(responses,
                     write_error_response(codes_bad_request, "InvalidRequest", v.error_msg))
               /\ calls' = calls \o <<"validate_request", "write_error_response">>
               /\ pc' = "done"
          ELSE /\ responses' = responses
               /\ calls' = Append(calls, "validate_request")
               /\ pc' = "fetch"
  /\ UNCHANGED <<inputs, request_header, object_response, transformed_whole_object,
                 range_number, part_number, partial_object_response>>

\* lines 59-62: the forwarded headers, then requests.get, which returns a
\* response or raises (no connection, timeout) with nothing to catch it
FetchOrigin ==
  /\ pc = "fetch"
  /\ request_header' =
       Some(get_request_header(user_request.headers, request_context.inputS3Url))
  /\ calls' = Append(calls, "requests.get")
  /\ \/ \E r \in OriginResponses : object_response' = Some(r) /\ pc' = "check"
     \/ object_response' = None /\ pc' = "raised"
  /\ UNCHANGED <<inputs, requests_validation, transformed_whole_object,
                 range_number, part_number, partial_object_response, responses>>

\* line 67 missing: a 304 handled as every other failure
is_not_modified_never(r) == FALSE

\* line 67: object_response.status_code == requests.codes.not_modified
is_not_modified(r) == r.status_code = codes_not_modified

\* lines 65-75: any status but 200 ends the run
CheckStatus ==
  /\ pc = "check"
  /\ LET r == object_response[1] IN
     IF r.status_code # codes_ok
     THEN /\ pc' = "done"
          /\ IF is_not_modified(r)
             THEN /\ responses' = Append(responses,
                        Response("write_get_object_response", Some(r.status_code),
                                 None, None, None, None))
                  /\ calls' = Append(calls, "write_get_object_response")
             ELSE /\ responses' = Append(responses, write_error_response_for_s3(r))
                  /\ calls' = Append(calls, "write_error_response_for_s3")
     ELSE /\ pc' = "transform"
          /\ UNCHANGED <<responses, calls>>
  /\ UNCHANGED <<inputs, requests_validation, request_header, object_response,
                 transformed_whole_object, range_number, part_number,
                 partial_object_response>>

\* lines 77-79
Transform ==
  /\ pc = "transform"
  /\ transformed_whole_object' =
       Some(transform_object(transform, object_response[1].content))
  /\ calls' = Append(calls, "transform_object")
  /\ pc' = "extract"
  /\ UNCHANGED <<inputs, requests_validation, request_header, object_response,
                 range_number, part_number, partial_object_response, responses>>

\* lines 84-85 with a message of the handler's own
extraction_error_generic(partial) ==
  write_error_response(codes_bad_request, "InvalidRequest",
                       Some("Invalid range or part number"))

\* lines 84-85: the error response of a failed extraction
extraction_error(partial) ==
  write_error_response(codes_bad_request, "InvalidRequest", partial.error_msg)

\* lines 82-85 with apply_range_or_part_number (100-115)
Extract ==
  /\ pc = "extract"
  /\ LET rn == get_range(user_request)
         pn == get_part_number(user_request)
         mapper == selected_mapper(rn, pn)
         res == apply_range_or_part_number(transformed_whole_object[1], user_request)
     IN /\ range_number' = Some(rn)
        /\ part_number' = Some(pn)
        /\ partial_object_response' = Some(res)
        /\ IF res.hasError
           THEN /\ responses' = Append(responses, extraction_error(res))
                /\ calls' = (IF mapper = "none" THEN calls ELSE Append(calls, mapper))
                            \o <<"write_error_response">>
                /\ pc' = "done"
           ELSE /\ responses' = responses
                /\ calls' = IF mapper = "none" THEN calls ELSE Append(calls, mapper)
                /\ pc' = "respond"
  /\ UNCHANGED <<inputs, requests_validation, request_header, object_response,
                 transformed_whole_object>>

\* lines 87-97 with the checksum taken of the whole transformed object
Respond_checksum_of_whole ==
  /\ pc = "respond"
  /\ LET transformed_object == partial_object_response[1].object[1]
         transformed_object_checksum == get_checksum(transformed_whole_object[1])
     IN responses' = Append(responses,
          Response("write_get_object_response", None, None, None,
                   Some(transformed_object),
                   Some([algorithm |-> transformed_object_checksum.algorithm,
                         digest |-> transformed_object_checksum.digest])))
  /\ calls' = calls \o <<"get_checksum", "write_get_object_response">>
  /\ pc' = "done"
  /\ UNCHANGED <<inputs, requests_validation, request_header, object_response,
                 transformed_whole_object, range_number, part_number,
                 partial_object_response>>

\* lines 87-97: the checksum of the extracted object, and the response
Respond ==
  /\ pc = "respond"
  /\ LET transformed_object == partial_object_response[1].object[1]
         transformed_object_checksum == get_checksum(transformed_object)
     IN responses' = Append(responses,
          Response("write_get_object_response", None, None, None,
                   Some(transformed_object),
                   Some([algorithm |-> transformed_object_checksum.algorithm,
                         digest |-> transformed_object_checksum.digest])))
  /\ calls' = calls \o <<"get_checksum", "write_get_object_response">>
  /\ pc' = "done"
  /\ UNCHANGED <<inputs, requests_validation, request_header, object_response,
                 transformed_whole_object, range_number, part_number,
                 partial_object_response>>

Next == Validate \/ FetchOrigin \/ CheckStatus \/ Transform \/ Extract \/ Respond

Spec == Init /\ [][Next]_vars

(* ------------------------------- claims ------------------------------- *)

Count(sq, x) == Cardinality({i \in DOMAIN sq : sq[i] = x})
Called(x) == InSeq(x, calls)

lc_partnumber == <<"p","a","r","t","n","u","m","b","e","r">>
lc_range == <<"r","a","n","g","e">>

\* the query parameters of the caller's URL that name a part number / a range
\* and have a value
PartNumberParams ==
  {i \in DOMAIN query : Lower(query[i][1]) = lc_partnumber /\ query[i][2] # <<>>}
RangeParams ==
  {i \in DOMAIN query : Lower(query[i][1]) = lc_range /\ query[i][2] # <<>>}
\* the caller's headers named Range in any letter case
RangeHeaders ==
  {i \in DOMAIN user_request.headers : Lower(user_request.headers[i][1]) = lc_range}

Last(S) == CHOOSE i \in S : \A j \in S : j <= i

Items(sq) == {sq[i] : i \in DOMAIN sq}

\* C1: when the URL carries a partNumber parameter with a non-empty value, the
\* extraction is the part-number mapper's result for that part number and the
\* transformed object alone; the range mapper is not called, whatever Range
\* header or parameter the request also carries.
C1_PartNumberPrecedence ==
  (partial_object_response # None /\ PartNumberParams # {}) =>
     /\ Called("part_number_mapper")
     /\ ~Called("range_mapper")
     /\ partial_object_response[1] =
          map_part_number(transformed_whole_object[1],
                          Lower(query[Last(PartNumberParams)][2]))

C1_Witness ==
  /\ partial_object_response # None
  /\ PartNumberParams # {}
  /\ \E i \in RangeHeaders : user_request.headers[i][2] # <<>>

\* C2: the headers forwarded to the origin hold no key that is "host" in any
\* letter case, also when host is signed and the caller sends it.
C2_NoHostForwarded ==
  request_header # None =>
     \A i \in DOMAIN request_header[1] : Lower(request_header[1][i][1]) # HOST

C2_Witness ==
  /\ request_header # None
  /\ signed # None /\ \E i \in DOMAIN signed[1] : Lower(signed[1][i]) = HOST
  /\ \E i \in DOMAIN user_request.headers :
        user_request.headers[i][1] = <<"H","O","S","T">>

SignedSet == IF signed = None THEN {} ELSE {Lower(signed[1][i]) : i \in DOMAIN signed[1]}
ConditionalNames ==
  { <<"i","f","-","m","a","t","c","h">>,
    <<"i","f","-","m","o","d","i","f","i","e","d","-","s","i","n","c","e">>,
    <<"i","f","-","n","o","n","e","-","m","a","t","c","h">>,
    <<"i","f","-","u","n","m","o","d","i","f","i","e","d","-","s","i","n","c","e">> }

C4_InvalidRequestNoIO ==
  (requests_validation # None /\ ~requests_validation[1].is_valid) =>
     /\ pc = "done"
     /\ responses =
          << [call |-> "write_error_response", StatusCode |-> Some(400),
              ErrorCode |-> Some("InvalidRequest"),
              ErrorMessage |-> requests_validation[1].error_msg,
              Body |-> None, Metadata |-> None] >>
     /\ requests_validation[1].error_msg # None
     /\ ~Called("requests.get") /\ ~Called("transform_object")
     /\ ~Called("part_number_mapper") /\ ~Called("range_mapper")
     /\ ~Called("get_checksum")
     /\ partial_object_response = None

C4_Witness ==
  /\ requests_validation # None /\ ~requests_validation[1].is_valid
  /\ pc = "done"

OriginError ==
  /\ object_response # None
  /\ responses = <<write_error_response_for_s3(object_response[1])>>

\* C5: a finished run that fetched ends in OriginError exactly when the
\* origin's status is neither 2xx nor 304.
C5_OriginErrorIffNot2xxNor304 ==
  (pc = "done" /\ object_response # None) =>
     (OriginError <=>
        /\ object_response[1].status_code \notin 200..299
        /\ object_response[1].status_code # 304)

\* C6: a run whose fetch returned 304 ends in NotModified: one response with
\* status 304 and neither body nor metadata, and no transform, extraction or
\* checksum.
C6_NotModified ==
  (object_response # None /\ object_response[1].status_code = 304) =>
     /\ pc \in {"check", "done"}
     /\ pc = "check" => responses = <<>>
     /\ pc = "done" =>
          responses =
            << [call |-> "write_get_object_response", StatusCode |-> Some(304),
                ErrorCode |-> None, ErrorMessage |-> None,
                Body |-> None, Metadata |-> None] >>
     /\ ~Called("transform_object")
     /\ ~Called("part_number_mapper") /\ ~Called("range_mapper")
     /\ ~Called("get_checksum")
     /\ transformed_whole_object = None /\ partial_object_response = None

C6_Witness ==
  /\ object_response # None /\ object_response[1].status_code = 304
  /\ pc = "done"

Success ==
  /\ pc = "done"
  /\ partial_object_response # None
  /\ ~partial_object_response[1].hasError

\* C7: in a Success run the one response has as body the bytes the extraction
\* produced (the whole transformed object when the request has neither part
\* number nor range), and as checksum metadata the checksum of that body.
C7_BodyAndChecksum ==
  Success =>
     /\ Len(responses) = 1
     /\ responses[1].Body = partial_object_response[1].object
     /\ responses[1].Body # None
     /\ responses[1].Metadata = Some(get_checksum(responses[1].Body[1]))
     /\ (PartNumberParams = {} /\ RangeParams = {} /\ RangeHeaders = {}) =>
           responses[1].Body[1] = transformed_whole_object[1]

C7_Witness ==
  /\ Success
  /\ responses[1].Body[1] # transformed_whole_object[1]
  /\ get_checksum(responses[1].Body[1]) # get_checksum(transformed_whole_object[1])
  /\ transformed_whole_object[1] # object_response[1].content

Outcome(r) ==
  IF r.call = "write_error_response" THEN "InvalidRequest"
  ELSE IF r.call = "write_error_response_for_s3" THEN "OriginError"
  ELSE IF r.Body # None THEN "Success"
  ELSE "NotModified"

\* C8: an invocation that has ended has ended in one of the four terminal
\* states with exactly one response written; nothing escaped the handler.
C8_OneResponseNothingEscapes ==
  pc \in {"done", "raised"} =>
     /\ pc = "done"
     /\ Len(responses) = 1
     /\ Outcome(responses[1]) \in {"Success", "InvalidRequest", "OriginError", "NotModified"}

\* C9: when the mapper reports an error the run is over with the one response
\* InvalidRequest (400) carrying the mapper's error_msg, without body, with no
\* checksum computed and the origin fetched exactly once.
C9_ExtractionError ==
  (partial_object_response # None /\ partial_object_response[1].hasError) =>
     /\ pc = "done"
     /\ partial_object_response[1].error_msg # None
     /\ responses =
          << [call |-> "write_error_response", StatusCode |-> Some(400),
              ErrorCode |-> Some("InvalidRequest"),
              ErrorMessage |-> partial_object_response[1].error_msg,
              Body |-> None, Metadata |-> None] >>
     /\ ~Called("get_checksum")
     /\ Count(calls, "requests.get") = 1

C9_Witness ==
  /\ partial_object_response # None /\ partial_object_response[1].hasError
  /\ pc = "done"

\* C10: get_range returns the value of the caller's Range header when a header
\* named range in any letter case is present, the (lower-cased) Range query
\* parameter only when there is none, and None with neither; without a part
\* number the range mapper is called only when a range was supplied.
C10_RangeHeaderThenQuery ==
  range_number # None =>
     /\ RangeHeaders # {} =>
          range_number[1] = Some(user_request.headers[Last(RangeHeaders)][2])
     /\ (RangeHeaders = {} /\ RangeParams # {}) =>
          range_number[1] = Some(Lower(query[Last(RangeParams)][2]))
     /\ (RangeHeaders = {} /\ RangeParams = {}) => range_number[1] = None
     /\ Called("range_mapper") =>
          /\ PartNumberParams = {}
          /\ RangeHeaders # {} \/ RangeParams # {}

C10_Witness ==
  /\ range_number # None
  /\ \E i \in RangeHeaders : user_request.headers[i][1] = <<"R","A","N","G","E">>
  /\ RangeParams # {}
  /\ Called("range_mapper")

====
